---- MODULE Spec2Model ----
(***************************************************************************)
(* The indexing pipeline of src/src/index.ts: the TransferSingle listener, *)
(* the queue drain timer and the reconciliation sweep (sync), all running  *)
(* indexById against one database.  Every await of the source is a step at *)
(* which the other handlers may run; the code between two awaits is atomic  *)
(* (one JavaScript thread).                                                *)
(*                                                                         *)
(* The database module (./db, ./supabase) is not among the source files:   *)
(* its operations are modelled from the words of the specification and are *)
(* the definitions whose names start with db.                              *)
(***************************************************************************)
EXTENDS Integers, Sequences, FiniteSets, TLC

\* ------------------------------------------------------------------ bounds
MaxId == 2          \* token ids minted on chain
MaxAttempts == 2    \* cap of a queue row's attempt counter
\* Spec, the whole program:
MaxEvents == 1      \* TransferSingle events delivered to the listener
MaxLive == 1        \* listener callbacks in flight at once
MaxDrain == 1       \* drain ticks in flight at once
MaxSpawned == 1     \* indexById runs started by sync and still in flight
\* ListenerSpec, the program before its timers fire:
ListenerEvents == 3
ListenerLive == 2
\* OverlapSpec, a drain tick that starts before the previous one has finished:
OverlapDrain == 2

\* ------------------------------------------------------- program constants
DrainLimit == 10        \* db.queue.fetch(10)
SyncQueueLimit == 1000  \* db.queue.fetch(1000)

\* ------------------------------------------------------------- vocabulary
AddressZero == "0x0"
OtherAddress == "0xabc"
NoDevice == "nodevice"                \* a document without properties.device
NoProperties == "noproperties"        \* a document without properties at all
Malformed == "malformed"              \* a body that is not well-formed JSON
DeviceNames == {"A"}                  \* the values of properties.device
Docs == DeviceNames \cup {NoDevice, NoProperties, Malformed}
Unminted == "unminted"

ErrFetch == "failed fetching metadata"
ErrNoDevice == "no metadata.properties.device property"
ErrDevice == "creating device failed"
\* `failed creating midi: ${error.details} ${error.message}`: the text carries
\* the database's own words, which differ for a refused id and a failed write.
ErrMidi == "failed creating midi: write failed"
ErrMidiDuplicate == "failed creating midi: duplicate key"
NoError == "undefined"
Errors == {ErrFetch, ErrNoDevice, ErrDevice, ErrMidi, ErrMidiDuplicate}

Ids == 1..MaxId

\* The operator of the mint event of a token id (the address that minted it).
Minters == <<"0xm1", "0xm2", "0xm3", "0xm4">>

Minter(id) == Minters[id]

Min(a, b) == IF a < b THEN a ELSE b

VARIABLES
  currentTokenId,  \* the contract's counter: ids 1..currentTokenId are minted
  metadata,        \* the document behind uri(id), Unminted before the mint
  healthy,         \* TRUE once the gateway, the chain and the database never fail again
  devices,         \* table devices: the sequence of names, a row's id is its index
  tokens,          \* table midi: rows [id, metadata, device, createdBy]
  queue,           \* table queue: rows [id, operator, error, attempts], oldest first
  live,            \* the listener callbacks in flight
  drain,           \* the drain ticks in flight
  sweep,           \* the run of sync in flight
  spawned,         \* the indexById runs sync started without awaiting them
  nEvents          \* events the chain still delivers (bounds the model)

vars == <<currentTokenId, metadata, healthy, devices, tokens, queue,
          live, drain, sweep, spawned, nEvents>>

Idle == [pc |-> "idle"]

\* A callback whose promise rejected with nobody to catch it.
Rejected == [pc |-> "rejected"]

Free(slot) == slot \in {Idle, Rejected}

\* -------------------------------------------------------------- database
\* devices.fetchByName: the row of that name, 0 when there is none.
dbDevicesFetchByName(devs, name) ==
  IF \E i \in DOMAIN devs : devs[i] = name
  THEN CHOOSE i \in DOMAIN devs : devs[i] = name /\ \A j \in DOMAIN devs : devs[j] = name => i <= j
  ELSE 0

\* devices.create: inserts a row; nothing but the caller's lookup keeps names unique.
dbDevicesCreate(devs, name) == Append(devs, name)

\* midi.create: the id is unique; a second row of an id is refused.
dbMidiHas(toks, id) == \E i \in DOMAIN toks : toks[i].id = id

dbMidiCreate(toks, row) == IF dbMidiHas(toks, row.id) THEN toks ELSE Append(toks, row)

\* queue.create: always inserts a row with attempts 0.
dbQueueCreate(q, id, error, operator) ==
  Append(q, [id |-> id, operator |-> operator, error |-> error, attempts |-> 0])

\* queue.fetch(limit): the oldest limit rows.
dbQueueFetch(q, limit) == SubSeq(q, 1, Min(limit, Len(q)))

\* queue.update({id, attempts, error}): sets both columns of the rows of that id.
dbQueueUpdate(q, id, attempts, error) ==
  [i \in DOMAIN q |->
     IF q[i].id = id THEN [q[i] EXCEPT !.attempts = attempts, !.error = error] ELSE q[i]]

\* midi.fetch(): every row.
dbMidiFetch(toks) == toks

\* ----------------------------------------------------------- indexById
\* A run of indexById is [id, operator, pc, device]: pc names the await it is
\* suspended at, "returned" carries its result in err, "thrown" is a rejection.
StartIndex(id, operator) ==
  [id |-> id, operator |-> operator, pc |-> "fetchMetadata", device |-> 0, err |-> NoError]

Returned(t, e) == [t EXCEPT !.pc = "returned", !.err = e]

Out(t, devs, toks) == [task |-> t, devices |-> devs, tokens |-> toks]

\* fetchMetadata and the tests on its result: uri(id), fetch and res.json()
\* read nothing the handlers write, so the three awaits are one step.
\* The uri read or the fetch rejects, or the response is not ok, only while
\* the environment is unhealthy; res.json() rejects on a malformed body, and
\* on a document without properties the test metadata.properties.device
\* throws a TypeError (it reads device of undefined).
fetchMetadata(t) ==
  (IF healthy THEN {}
   ELSE {Out([t EXCEPT !.pc = "thrown"], devices, tokens),
         Out(Returned(t, ErrFetch), devices, tokens)})
  \cup
  {CASE metadata[t.id] \in DeviceNames -> Out([t EXCEPT !.pc = "fetchByName"], devices, tokens)
     [] metadata[t.id] \in {Malformed, NoProperties} ->
          Out([t EXCEPT !.pc = "thrown"], devices, tokens)
     [] OTHER -> Out(Returned(t, ErrNoDevice), devices, tokens)}

\* await db.devices.fetchByName, then if (!device) the call of devices.create.
fetchByName(t) ==
  LET d == dbDevicesFetchByName(devices, metadata[t.id])
  IN  {IF d = 0 THEN Out([t EXCEPT !.pc = "devicesCreate"], devices, tokens)
       ELSE Out([t EXCEPT !.pc = "midiCreate", !.device = d], devices, tokens)}

\* A variant without the test of createdDevice: after a failed creation the
\* token write is called with a device that does not exist.
devicesCreateUnchecked(t) ==
  (IF healthy THEN {}
   ELSE {Out([t EXCEPT !.pc = "midiCreate", !.device = 0], devices, tokens)})
  \cup
  {LET devs == dbDevicesCreate(devices, metadata[t.id])
   IN  Out([t EXCEPT !.pc = "midiCreate", !.device = Len(devs)], devs, tokens)}

\* await db.devices.create, then if (!createdDevice) return, else midi.create is called.
devicesCreate(t) ==
  (IF healthy THEN {} ELSE {Out(Returned(t, ErrDevice), devices, tokens)})
  \cup
  {LET devs == dbDevicesCreate(devices, metadata[t.id])
   IN  Out([t EXCEPT !.pc = "midiCreate", !.device = Len(devs)], devs, tokens)}

TokenRow(t) ==
  [id |-> t.id, metadata |-> metadata[t.id], device |-> t.device, createdBy |-> t.operator]

\* A variant whose write lands although an error is returned for it.
midiCreateWriteThenFail(t) ==
  IF dbMidiHas(tokens, t.id)
  THEN {Out(Returned(t, ErrMidiDuplicate), devices, tokens)}
  ELSE (IF healthy THEN {}
        ELSE {Out(Returned(t, ErrMidi), devices, dbMidiCreate(tokens, TokenRow(t)))})
       \cup {Out(Returned(t, NoError), devices, dbMidiCreate(tokens, TokenRow(t)))}

\* A variant that writes the row over an existing one of the id (an upsert
\* where the source inserts).
midiCreateUpsert(t) ==
  (IF healthy THEN {} ELSE {Out(Returned(t, ErrMidi), devices, tokens)})
  \cup
  {Out(Returned(t, NoError), devices,
       IF dbMidiHas(tokens, t.id)
       THEN [i \in DOMAIN tokens |-> IF tokens[i].id = t.id THEN TokenRow(t) ELSE tokens[i]]
       ELSE Append(tokens, TokenRow(t)))}

\* await db.midi.create, then the test of its error.
midiCreate(t) ==
  IF dbMidiHas(tokens, t.id)
  THEN {Out(Returned(t, ErrMidiDuplicate), devices, tokens)}
  ELSE (IF healthy THEN {} ELSE {Out(Returned(t, ErrMidi), devices, tokens)})
       \cup {Out(Returned(t, NoError), devices, dbMidiCreate(tokens, TokenRow(t)))}

\* One step of a run: what it may become, with the tables it leaves.
indexById(t) ==
  CASE t.pc = "fetchMetadata" -> fetchMetadata(t)
    [] t.pc = "fetchByName"   -> fetchByName(t)
    [] t.pc = "devicesCreate" -> devicesCreate(t)
    [] t.pc = "midiCreate"    -> midiCreate(t)
    [] OTHER -> {}

Finished(t) == t.pc \in {"returned", "thrown"}

\* ------------------------------------------------------------ environment
\* The process starts on an empty database and a contract without tokens;
\* the arguments bound the events and the callbacks in flight.
InitWith(events, nLive, nDrain, nSpawned) ==
  /\ currentTokenId = 0
  /\ metadata = [i \in Ids |-> Unminted]
  /\ healthy = FALSE
  /\ devices = <<>>
  /\ tokens = <<>>
  /\ queue = <<>>
  /\ live = [h \in 1..nLive |-> Idle]
  /\ drain = [d \in 1..nDrain |-> Idle]
  /\ sweep = Idle
  /\ spawned = [s \in 1..nSpawned |-> Idle]
  /\ nEvents = events

Init == InitWith(MaxEvents, MaxLive, MaxDrain, MaxSpawned)

\* A mint on chain: the counter moves and the token's document is stored.
Mint ==
  /\ currentTokenId < MaxId
  /\ currentTokenId' = currentTokenId + 1
  /\ \E doc \in Docs : metadata' = [metadata EXCEPT ![currentTokenId + 1] = doc]
  /\ UNCHANGED <<healthy, devices, tokens, queue, live, drain, sweep, spawned, nEvents>>

\* From here on no fetch, chain read or database write fails.
Heal ==
  /\ ~healthy
  /\ healthy' = TRUE
  /\ UNCHANGED <<currentTokenId, metadata, devices, tokens, queue, live, drain, sweep,
                 spawned, nEvents>>

\* ---------------------------------------------------------------- listener
FreeLive == {h \in DOMAIN live : Free(live[h])}

\* A variant of the callback that drops the failure: no db.queue.create.
LiveOnResultDropped(t) ==
  IF t.pc = "thrown" THEN Rejected
  ELSE IF t.pc = "returned" THEN Idle
  ELSE t

\* What the callback does with indexById's result: if (error) it calls
\* db.queue.create(id, error, operator) and ends without awaiting it; a
\* success or a rejection ends it at once.
LiveOnResult(t) ==
  IF t.pc = "returned" /\ t.err # NoError
  THEN [pc |-> "queueCreate", id |-> t.id, operator |-> t.operator, err |-> t.err]
  ELSE IF t.pc = "thrown" THEN Rejected
  ELSE IF t.pc = "returned" THEN Idle
  ELSE t

\* A variant of the callback without the test of from.
TransferSingleUnfiltered(from, id) ==
  /\ nEvents > 0
  /\ nEvents' = nEvents - 1
  /\ FreeLive # {}
  /\ LET h == CHOOSE x \in FreeLive : \A y \in FreeLive : x <= y
     IN  live' = [live EXCEPT ![h] = StartIndex(id, Minter(id))]
  /\ UNCHANGED <<currentTokenId, metadata, healthy, devices, tokens, queue, drain, sweep,
                 spawned>>

\* midiInstance.on("TransferSingle", ...): the callback up to its first await.
TransferSingle(from, id) ==
  /\ nEvents > 0
  /\ nEvents' = nEvents - 1
  /\ IF from = AddressZero
     THEN /\ FreeLive # {}
          /\ LET h == CHOOSE x \in FreeLive : \A y \in FreeLive : x <= y
             IN  live' = [live EXCEPT ![h] = StartIndex(id, Minter(id))]
     ELSE live' = live
  /\ UNCHANGED <<currentTokenId, metadata, healthy, devices, tokens, queue, drain, sweep,
                 spawned>>

\* The callback resumes after an await of its indexById run; when the run
\* returns, the test of error and the call of db.queue.create follow at once.
LiveStep(h) ==
  /\ ~Free(live[h])
  /\ live[h].pc # "queueCreate"
  /\ \E o \in indexById(live[h]) :
       /\ devices' = o.devices
       /\ tokens' = o.tokens
       /\ live' = [live EXCEPT ![h] = LiveOnResult(o.task)]
  /\ UNCHANGED <<currentTokenId, metadata, healthy, queue, drain, sweep, spawned, nEvents>>

\* The insert of db.queue.create reaches the table; the callback, which did
\* not await it, has nothing left to do.
LiveQueueCreate(h) ==
  /\ ~Free(live[h])
  /\ live[h].pc = "queueCreate"
  /\ queue' = dbQueueCreate(queue, live[h].id, live[h].err, live[h].operator)
  /\ live' = [live EXCEPT ![h] = Idle]
  /\ UNCHANGED <<currentTokenId, metadata, healthy, devices, tokens, drain, sweep, spawned,
                 nEvents>>

\* ------------------------------------------------------------ queue drain
\* What a tick keeps of a fetched row: {id, operator, attempts}.
BatchRow(r) == [id |-> r.id, operator |-> r.operator, attempts |-> r.attempts]

DrainBatch(q) == [i \in DOMAIN dbQueueFetch(q, DrainLimit) |-> BatchRow(q[i])]

\* The loop reaches a row: indexById is called with the row's id and operator.
DrainRow(batch) ==
  IF batch = <<>> THEN Idle
  ELSE [pc |-> "indexById", batch |-> batch,
        run |-> StartIndex(Head(batch).id, Head(batch).operator)]

\* What the tick does with a run's result: a failure awaits db.queue.update,
\* a success goes on to the next row, a rejection ends the callback.
DrainOnResult(k, t) ==
  IF t.pc = "thrown" THEN Rejected
  ELSE IF t.pc = "returned"
       THEN IF t.err # NoError
            THEN [pc |-> "queueUpdate", batch |-> k.batch, run |-> t]
            ELSE DrainRow(Tail(k.batch))
       ELSE [k EXCEPT !.run = t]

\* The attempt count a failed retry writes: row.attempts + 1.
DrainAttempts(row) == row.attempts + 1

\* The timer fires and db.queue.fetch(10) answers (one step: nothing of the
\* tick precedes the read).  On an empty queue the loop has no row and the
\* tick changes nothing.
DrainTick(d) ==
  /\ Free(drain[d])
  /\ queue # <<>>
  /\ drain' = [drain EXCEPT ![d] = DrainRow(DrainBatch(queue))]
  /\ UNCHANGED <<currentTokenId, metadata, healthy, devices, tokens, queue, live, sweep,
                 spawned, nEvents>>

\* The tick resumes after an await of the current row's indexById run.
DrainStep(d) ==
  /\ ~Free(drain[d])
  /\ drain[d].pc = "indexById"
  /\ \E o \in indexById(drain[d].run) :
       /\ devices' = o.devices
       /\ tokens' = o.tokens
       /\ drain' = [drain EXCEPT ![d] = DrainOnResult(drain[d], o.task)]
  /\ UNCHANGED <<currentTokenId, metadata, healthy, queue, live, sweep, spawned, nEvents>>

\* await db.queue.update({id, attempts: row.attempts + 1, error}) answers.
\* The counter has no cap in the source; MaxAttempts bounds it here.
DrainUpdate(d) ==
  /\ ~Free(drain[d])
  /\ drain[d].pc = "queueUpdate"
  /\ Head(drain[d].batch).attempts < MaxAttempts
  /\ queue' = dbQueueUpdate(queue, Head(drain[d].batch).id,
                            DrainAttempts(Head(drain[d].batch)), drain[d].run.err)
  /\ drain' = [drain EXCEPT ![d] = DrainRow(Tail(drain[d].batch))]
  /\ UNCHANGED <<currentTokenId, metadata, healthy, devices, tokens, live, sweep, spawned,
                 nEvents>>

\* ------------------------------------------------------------------- sync
SeqIds(rows) == {rows[i].id : i \in DOMAIN rows}

\* The ids of set S in increasing order, as Array.from and filter leave them.
RECURSIVE Ascending(_)
Ascending(S) ==
  IF S = {} THEN <<>>
  ELSE LET m == CHOOSE x \in S : \A y \in S : x <= y
       IN  <<m>> \o Ascending(S \ {m})

\* tokenIDs filtered by dbRowIDs, then by queueIDs.
unqueueDiff(currentID, dbRowIDs, queueIDs) ==
  Ascending({id \in 1..currentID : id \notin dbRowIDs /\ id \notin queueIDs})

\* The loop of sync reaches an id: fetchOriginalMinter is awaited.
SyncLoop(diff) ==
  IF diff = <<>> THEN Idle ELSE [pc |-> "fetchOriginalMinter", diff |-> diff]

\* The timer fires and currentTokenId() answers.  One run of sync at a time
\* (the period is a day).
SweepTick ==
  /\ sweep = Idle
  /\ sweep' = [pc |-> "midiFetch", currentID |-> currentTokenId]
  /\ UNCHANGED <<currentTokenId, metadata, healthy, devices, tokens, queue, live, drain,
                 spawned, nEvents>>

\* await db.midi.fetch() answers.
SweepMidiFetch ==
  /\ sweep # Idle
  /\ sweep.pc = "midiFetch"
  /\ sweep' = [pc |-> "queueFetch", currentID |-> sweep.currentID,
               dataLength |-> Len(dbMidiFetch(tokens)),
               dbRowIDs |-> SeqIds(dbMidiFetch(tokens))]
  /\ UNCHANGED <<currentTokenId, metadata, healthy, devices, tokens, queue, live, drain,
                 spawned, nEvents>>

\* await db.queue.fetch(1000) answers; the pre-check and the two filters follow.
SweepQueueFetch ==
  /\ sweep # Idle
  /\ sweep.pc = "queueFetch"
  /\ LET queueIDs == SeqIds(dbQueueFetch(queue, SyncQueueLimit))
     IN  sweep' = IF sweep.currentID # sweep.dataLength
                  THEN SyncLoop(unqueueDiff(sweep.currentID, sweep.dbRowIDs, queueIDs))
                  ELSE Idle
  /\ UNCHANGED <<currentTokenId, metadata, healthy, devices, tokens, queue, live, drain,
                 spawned, nEvents>>

\* What fetchOriginalMinter may answer for an id: the operator of its mint
\* event, or undefined when the log query returns no event of that id.  (A
\* rejection of queryFilter ends sync the way the return on undefined does.)
fetchOriginalMinter(id) ==
  {Minter(id)} \cup (IF healthy THEN {} ELSE {"undefined"})

\* What sync does after an operator lookup that found nothing: return.
SyncOnNoOperator(diff) == Idle

FreeSpawned == {s \in DOMAIN spawned : Free(spawned[s])}

\* A variant of the loop that queues the id it finds no mint event for.
SweepMinterEnqueues ==
  /\ sweep # Idle
  /\ sweep.pc = "fetchOriginalMinter"
  /\ \E operator \in fetchOriginalMinter(Head(sweep.diff)) :
       IF operator = "undefined"
       THEN /\ sweep' = SyncOnNoOperator(sweep.diff)
            /\ spawned' = spawned
            /\ queue' = dbQueueCreate(queue, Head(sweep.diff), "no mint event", operator)
       ELSE /\ FreeSpawned # {}
            /\ LET s == CHOOSE x \in FreeSpawned : \A y \in FreeSpawned : x <= y
               IN  spawned' = [spawned EXCEPT ![s] = StartIndex(Head(sweep.diff), operator)]
            /\ sweep' = SyncLoop(Tail(sweep.diff))
            /\ queue' = queue
  /\ UNCHANGED <<currentTokenId, metadata, healthy, devices, tokens, live, drain, nEvents>>

\* await fetchOriginalMinter answers; with an operator, indexById is called
\* and not awaited, and the loop goes on.
SweepMinter ==
  /\ sweep # Idle
  /\ sweep.pc = "fetchOriginalMinter"
  /\ \E operator \in fetchOriginalMinter(Head(sweep.diff)) :
       IF operator = "undefined"
       THEN sweep' = SyncOnNoOperator(sweep.diff) /\ spawned' = spawned
       ELSE /\ FreeSpawned # {}
            /\ LET s == CHOOSE x \in FreeSpawned : \A y \in FreeSpawned : x <= y
               IN  spawned' = [spawned EXCEPT ![s] = StartIndex(Head(sweep.diff), operator)]
            /\ sweep' = SyncLoop(Tail(sweep.diff))
  /\ UNCHANGED <<currentTokenId, metadata, healthy, devices, tokens, queue, live, drain,
                 nEvents>>

\* What becomes of a run sync started: nothing reads its result.
SpawnedOnResult(t) ==
  IF t.pc = "thrown" THEN Rejected
  ELSE IF t.pc = "returned" THEN Idle
  ELSE t

\* A run sync started resumes after an await.
SpawnedStep(s) ==
  /\ ~Free(spawned[s])
  /\ \E o \in indexById(spawned[s]) :
       /\ devices' = o.devices
       /\ tokens' = o.tokens
       /\ spawned' = [spawned EXCEPT ![s] = SpawnedOnResult(o.task)]
  /\ UNCHANGED <<currentTokenId, metadata, healthy, queue, live, drain, sweep, nEvents>>

\* ------------------------------------------------------- specifications
Events == \E id \in 1..currentTokenId : \E from \in {AddressZero, OtherAddress} : TransferSingle(from, id)
LiveSteps == \E h \in DOMAIN live : LiveStep(h)
LiveQueueCreates == \E h \in DOMAIN live : LiveQueueCreate(h)
DrainTicks == \E d \in DOMAIN drain : DrainTick(d)
DrainSteps == \E d \in DOMAIN drain : DrainStep(d)
DrainUpdates == \E d \in DOMAIN drain : DrainUpdate(d)
SpawnedSteps == \E s \in DOMAIN spawned : SpawnedStep(s)

Next ==
  \/ Mint
  \/ Heal
  \/ Events
  \/ LiveSteps
  \/ LiveQueueCreates
  \/ DrainTicks
  \/ DrainSteps
  \/ DrainUpdates
  \/ SweepTick
  \/ SweepMidiFetch
  \/ SweepQueueFetch
  \/ SweepMinter
  \/ SpawnedSteps

\* The whole program from an empty database.
Spec == Init /\ [][Next]_vars

\* The program while neither timer has fired yet: the listener alone, with
\* more events and two callbacks in flight.
ListenerInit == InitWith(ListenerEvents, ListenerLive, 0, 0)

ListenerNext ==
  \/ Mint
  \/ Heal
  \/ Events
  \/ LiveSteps
  \/ LiveQueueCreates

ListenerSpec == ListenerInit /\ [][ListenerNext]_vars

\* The program after the listener queued two mints whose fetch was not ok:
\* the document of id 1 is not well-formed JSON, that of id 2 is valid.  The
\* chain delivers no further event; both timers fire for ever and every
\* pending await is answered (weak fairness of each step).
LiveInit ==
  /\ currentTokenId = 2
  /\ metadata = [i \in Ids |-> IF i = 1 THEN Malformed ELSE IF i = 2 THEN "A" ELSE Unminted]
  /\ healthy = FALSE
  /\ devices = <<>>
  /\ tokens = <<>>
  /\ queue = <<[id |-> 1, operator |-> Minter(1), error |-> ErrFetch, attempts |-> 0],
               [id |-> 2, operator |-> Minter(2), error |-> ErrFetch, attempts |-> 0]>>
  /\ live = [h \in 1..MaxLive |-> Idle]
  /\ drain = [d \in 1..MaxDrain |-> Idle]
  /\ sweep = Idle
  /\ spawned = [s \in 1..MaxSpawned |-> Idle]
  /\ nEvents = 0

\* The steps that can happen from LiveInit: with no event left and both ids
\* in the queue, the listener and the sweep's loop have nothing to do.
LiveNext ==
  \/ Heal
  \/ DrainTicks
  \/ DrainSteps
  \/ DrainUpdates
  \/ SweepTick
  \/ SweepMidiFetch
  \/ SweepQueueFetch

LiveFairness ==
  /\ WF_vars(DrainTicks)
  /\ WF_vars(DrainSteps)
  /\ WF_vars(DrainUpdates)
  /\ WF_vars(SweepTick)
  /\ WF_vars(SweepMidiFetch)
  /\ WF_vars(SweepQueueFetch)

LiveSpec == LiveInit /\ [][LiveNext]_vars /\ LiveFairness

\* The listener and the drain timer, whose callback is async: setInterval
\* does not wait for it, so a tick that takes longer than the period is still
\* in its loop when the next one starts.
OverlapInit == InitWith(MaxEvents, MaxLive, OverlapDrain, 0)

OverlapNext ==
  \/ Mint
  \/ Heal
  \/ Events
  \/ LiveSteps
  \/ LiveQueueCreates
  \/ DrainTicks
  \/ DrainSteps
  \/ DrainUpdates

OverlapSpec == OverlapInit /\ [][OverlapNext]_vars

\* The program with a backlog: the listener has queued one failed mint more
\* than a drain tick fetches (the fetch was not ok each time): DrainLimit
\* mints of id 1, then one of id 2.  No further event comes; the drain timer
\* fires for ever and every pending await is answered.
BacklogInit ==
  /\ currentTokenId = 2
  /\ metadata = [i \in Ids |-> IF i <= 2 THEN "A" ELSE Unminted]
  /\ healthy = FALSE
  /\ devices = <<>>
  /\ tokens = <<>>
  /\ queue = [i \in 1..(DrainLimit + 1) |->
               LET id == IF i <= DrainLimit THEN 1 ELSE 2
               IN  [id |-> id, operator |-> Minter(id), error |-> ErrFetch, attempts |-> 0]]
  /\ live = [h \in 1..MaxLive |-> Idle]
  /\ drain = [d \in 1..MaxDrain |-> Idle]
  /\ sweep = Idle
  /\ spawned = [s \in 1..MaxSpawned |-> Idle]
  /\ nEvents = 0

BacklogNext ==
  \/ Heal
  \/ DrainTicks
  \/ DrainSteps
  \/ DrainUpdates

BacklogFairness ==
  /\ WF_vars(DrainTicks)
  /\ WF_vars(DrainSteps)
  /\ WF_vars(DrainUpdates)

BacklogSpec == BacklogInit /\ [][BacklogNext]_vars /\ BacklogFairness

\* ------------------------------------------------------------------ claims
HasToken(id) == dbMidiHas(tokens, id)

HasEntryIn(q, id) == \E i \in DOMAIN q : q[i].id = id

HasEntry(id) == HasEntryIn(queue, id)

QueueRow(id, operator, error, attempts) ==
  [id |-> id, operator |-> operator, error |-> error, attempts |-> attempts]

\* C1: every minted id whose metadata from some point on resolves with a
\* device, with the database answering and both timers firing again and
\* again, eventually has a Token Record.
C1_EventualConsistency ==
  \A id \in Ids :
    (/\ <>[](healthy /\ id <= currentTokenId /\ metadata[id] \in DeviceNames)
     /\ []<><<DrainTicks>>_vars
     /\ []<><<SweepTick>>_vars)
      => <>HasToken(id)

\* C2: on the live path a run of indexById that returns a failure is followed
\* by a new queue row of its id with attempts 0, the event's operator and the
\* returned error: a callback leaves its run only by a rejection, by having
\* written its Token Record, or towards db.queue.create with what the run
\* returned, and that insert appends exactly that row.
C2_LiveFailureEnqueued ==
  [][\A h \in DOMAIN live :
       /\ (~Free(live[h]) /\ live[h].pc # "queueCreate" /\ live'[h] = Idle)
            => tokens' = Append(tokens, TokenRow(live[h]))
       /\ (live[h].pc # "queueCreate" /\ live'[h].pc = "queueCreate")
            => /\ live'[h].id = live[h].id
               /\ live'[h].operator = Minter(live[h].id)
               /\ \E o \in indexById(live[h]) :
                    /\ o.task.pc = "returned"
                    /\ o.task.err \in Errors
                    /\ o.task.err = live'[h].err
       /\ (live[h].pc = "queueCreate" /\ live'[h] # live[h])
            => queue' = Append(queue, QueueRow(live[h].id, Minter(live[h].id), live[h].err, 0))
    ]_vars

\* C2 witness: a token write failed on the live path and its row is queued.
C2_Witness ==
  \E i \in DOMAIN queue :
    /\ queue[i] = QueueRow(queue[i].id, Minter(queue[i].id), ErrMidi, 0)
    /\ \A h \in DOMAIN live : Free(live[h])

\* C3: however often and however interleaved indexById runs for an id, the
\* table holds at most one Token Record of the id, and a record once written
\* is never changed or removed (it stays the first successful run's).
C3_OneTokenRecord ==
  [][/\ \A i \in DOMAIN tokens : i \in DOMAIN tokens' /\ tokens'[i] = tokens[i]
     /\ \A i, j \in DOMAIN tokens' : tokens'[i].id = tokens'[j].id => i = j
    ]_vars

\* C3 witness: a second run for an id met the record a first run had written.
C3_Witness ==
  \E h \in DOMAIN live :
    /\ live[h].pc = "queueCreate"
    /\ live[h].err = ErrMidiDuplicate
    /\ HasToken(live[h].id)

\* C4: two Token Records whose documents name the same device reference the
\* same Device Record, and it is the only one of that name.
C4_DeviceReuse ==
  \A i, j \in DOMAIN tokens :
    (i # j /\ tokens[i].metadata = tokens[j].metadata)
      => /\ tokens[i].device = tokens[j].device
         /\ Cardinality({d \in DOMAIN devices : devices[d] = tokens[i].metadata}) = 1

\* The set the reconciliation is to re-index: [1..currentId] \ (T \cup Q).
Missing(currentID, T, Q) == {id \in 1..currentID : id \notin T /\ id \notin Q}

SeqRange(q) == {q[i] : i \in DOMAIN q}

Spawns(id) ==
  \E s \in DOMAIN spawned : spawned'[s] # spawned[s] /\ spawned'[s] = StartIndex(id, Minter(id))

\* C5: a sweep invokes indexById for exactly the ids of
\* [1..currentId] \ (T \cup Q): after its three reads it holds exactly that
\* set to work on (none when the set is empty), and every id it holds gets
\* its indexById call.
C5_SweepAttemptsExactlyMissing ==
  [][/\ (sweep.pc = "queueFetch" /\ sweep' # sweep)
          => LET M == Missing(sweep.currentID, sweep.dbRowIDs, SeqIds(queue))
             IN  IF M = {} THEN sweep' = Idle
                 ELSE sweep'.pc = "fetchOriginalMinter" /\ SeqRange(sweep'.diff) = M
     /\ (sweep.pc = "fetchOriginalMinter" /\ sweep' # sweep)
          => Spawns(Head(sweep.diff))
    ]_vars

\* C6: no failure while handling a mint event escapes the callback as an
\* uncaught error.
C6_NoUncaughtListenerError == \A h \in DOMAIN live : live[h] # Rejected

\* C7: a failed indexById attempt leaves a queue row of its id, created or
\* updated, on each path: the listener inserts one, the drain updates the
\* row's attempts and error, and a run started by the sweep that ends without
\* having written its Token Record leaves a row of its id in the queue.
C7_NoFailureDropped ==
  [][/\ \A h \in DOMAIN live :
          (live[h].pc = "queueCreate" /\ live'[h] # live[h]) => HasEntryIn(queue', live[h].id)
     /\ \A d \in DOMAIN drain :
          (drain[d].pc = "queueUpdate" /\ drain'[d] # drain[d])
            => \E i \in DOMAIN queue' :
                 /\ queue'[i].id = drain[d].run.id
                 /\ queue'[i].error = drain[d].run.err
                 /\ queue'[i].attempts = Head(drain[d].batch).attempts + 1
     /\ \A s \in DOMAIN spawned :
          (~Free(spawned[s]) /\ Free(spawned'[s]) /\ tokens' = tokens)
            => HasEntryIn(queue', spawned[s].id)
    ]_vars

\* C8: within one sweep a failure at one missing id (no mint event found for
\* it) does not keep the sweep from the later ids: with ids left after the
\* current one, the loop goes on to the next.
C8_SweepGoesOn ==
  [][(sweep.pc = "fetchOriginalMinter" /\ Len(sweep.diff) > 1 /\ sweep' # sweep)
       => sweep' = SyncLoop(Tail(sweep.diff))
    ]_vars

\* C9: the queue holds at most one row per token id.
C9_OneEntryPerId ==
  \A i, j \in DOMAIN queue : queue[i].id = queue[j].id => i = j

\* C10: no minted id has a Token Record and a Queue Entry at once (the three
\* classes has-record, has-entry, untracked are disjoint).
C10_Partition ==
  \A id \in 1..currentTokenId : ~(HasToken(id) /\ HasEntry(id))

\* The outcomes of a run's resumed await that a step shows: those that leave
\* the tables and the run's caller as the step leaves them.
LiveOutcomes(h) ==
  {o \in indexById(live[h]) :
     o.tokens = tokens' /\ o.devices = devices' /\ LiveOnResult(o.task) = live'[h]}

DrainOutcomes(d) ==
  {o \in indexById(drain[d].run) :
     o.tokens = tokens' /\ o.devices = devices' /\ DrainOnResult(drain[d], o.task) = drain'[d]}

SpawnedOutcomes(s) ==
  {o \in indexById(spawned[s]) :
     o.tokens = tokens' /\ o.devices = devices' /\ SpawnedOnResult(o.task) = spawned'[s]}

Succeeded(o) == o.task.pc = "returned" /\ o.task.err = NoError

\* What a step of run t with outcomes O says about Token Records: the table
\* changes exactly when the run returns no error, and then by the run's own
\* row, of an id that had none.
TokenIffSucceeded(t, O) ==
  /\ O # {}
  /\ \A o \in O :
       /\ Succeeded(o) <=> tokens' # tokens
       /\ Succeeded(o) => (~HasToken(t.id) /\ tokens' = Append(tokens, TokenRow(t)))

LiveRuns == {h \in DOMAIN live : ~Free(live[h]) /\ live[h].pc # "queueCreate" /\ live'[h] # live[h]}

DrainRuns == {d \in DOMAIN drain : drain[d].pc = "indexById" /\ drain'[d] # drain[d]}

SpawnedRuns == {s \in DOMAIN spawned : ~Free(spawned[s]) /\ spawned'[s] # spawned[s]}

\* C11: a Token Record of an id exists if and only if a run of indexById for
\* the id has returned no error.  Step by step: the table of Token Records
\* changes only in a step in which a run returns, it changes exactly when
\* that run returns no error, by the one row of the run's id; a run that
\* returns an error or rejects leaves the table as it was.
C11_TokenIffSucceeded ==
  [][/\ tokens' # tokens => (LiveRuns \cup DrainRuns \cup SpawnedRuns) # {}
     /\ \A h \in LiveRuns :
          TokenIffSucceeded(live[h], LiveOutcomes(h))
     /\ \A d \in DrainRuns :
          TokenIffSucceeded(drain[d].run, DrainOutcomes(d))
     /\ \A s \in SpawnedRuns :
          TokenIffSucceeded(spawned[s], SpawnedOutcomes(s))
    ]_vars

\* C11 witness: one id has its record from a run that returned no error,
\* another has no record but the queue row of a run whose token write failed.
C11_Witness ==
  \E i, j \in 1..currentTokenId :
    /\ HasToken(i) /\ ~HasEntry(i)
    /\ HasEntry(j) /\ ~HasToken(j)
    /\ \E k \in DOMAIN queue : queue[k].id = j /\ queue[k].error = ErrMidi

\* C12: a TransferSingle event whose from is not the zero address starts no
\* run of indexById (no callback, drain tick or sweep is left anywhere but
\* where it was) and changes no Token Record, Device Record or queue row.
C12_MintFilter ==
  [][\A id \in Ids :
       TransferSingle(OtherAddress, id)
         => UNCHANGED <<live, drain, sweep, spawned, tokens, devices, queue>>
    ]_vars

\* C12 witness: an event has been delivered and has left nothing behind: it
\* was no mint (a mint's run ends with a record, a queue row or a rejection).
C12_Witness ==
  /\ nEvents < MaxEvents
  /\ currentTokenId > 0
  /\ \A h \in DOMAIN live : live[h] = Idle
  /\ tokens = <<>> /\ devices = <<>> /\ queue = <<>>

\* The documents that resolve (the fetch is ok and the body parses) and have
\* no properties.device, or an empty one.
LacksDevice(id) == metadata[id] \in {NoDevice, NoProperties}

\* What C13 asks of a run on such a document: it returns the missing-device
\* failure and both tables stay as they were.
MissingDeviceFailure(t, O) ==
  /\ O # {}
  /\ \A o \in O : o.task = Returned(t, ErrNoDevice)
  /\ UNCHANGED <<devices, tokens>>

\* C13: a run of indexById whose metadata resolves (healthy gateway) to a
\* document with an absent or empty properties.device returns the
\* missing-device failure and leaves Device Records and Token Records unchanged.
C13_MissingDevice ==
  [][/\ \A h \in LiveRuns :
          (healthy /\ LacksDevice(live[h].id))
            => MissingDeviceFailure(live[h], LiveOutcomes(h))
     /\ \A d \in DrainRuns :
          (healthy /\ LacksDevice(drain[d].run.id))
            => MissingDeviceFailure(drain[d].run, DrainOutcomes(d))
     /\ \A s \in SpawnedRuns :
          (healthy /\ LacksDevice(spawned[s].id))
            => MissingDeviceFailure(spawned[s], SpawnedOutcomes(s))
    ]_vars

\* The runs of indexById that have not returned or rejected yet.
InFlight ==
  {live[h] : h \in {x \in DOMAIN live : ~Free(live[x]) /\ live[x].pc # "queueCreate"}}
    \cup {drain[d].run : d \in {x \in DOMAIN drain : drain[x].pc = "indexById"}}
    \cup {spawned[s] : s \in {x \in DOMAIN spawned : ~Free(spawned[x])}}

\* C14: a run of indexById creates one Token Record, with at most one Device
\* Record, or changes nothing; a run that fails at the token write creates no
\* Device Record.  So every Device Record is referenced by the Token Record
\* its creating run wrote, unless that run is still before its token write.
C14_AllOrNothing ==
  \A d \in DOMAIN devices :
    \/ \E i \in DOMAIN tokens : tokens[i].device = d
    \/ \E t \in InFlight : t.pc = "midiCreate" /\ t.device = d

\* A run resumed at db.devices.create whose creation failed (no row came).
DeviceCreateFailed(t) == t.pc = "devicesCreate" /\ devices' = devices

\* C15: when the creation of the device fails, the run returns that failure
\* and the token write is not called (the run is over, no record is written);
\* and every Token Record references a Device Record that exists, the one of
\* the name in its document.
C15_NoTokenWithoutDevice ==
  [][/\ \A i \in DOMAIN tokens' :
          /\ tokens'[i].device \in DOMAIN devices'
          /\ devices'[tokens'[i].device] = tokens'[i].metadata
     /\ \A h \in LiveRuns :
          DeviceCreateFailed(live[h])
            => /\ tokens' = tokens
               /\ live'[h] = LiveOnResult(Returned(live[h], ErrDevice))
     /\ \A d \in DrainRuns :
          DeviceCreateFailed(drain[d].run)
            => /\ tokens' = tokens
               /\ drain'[d] = DrainOnResult(drain[d], Returned(drain[d].run, ErrDevice))
     /\ \A s \in SpawnedRuns :
          DeviceCreateFailed(spawned[s])
            => /\ tokens' = tokens
               /\ spawned'[s] = SpawnedOnResult(Returned(spawned[s], ErrDevice))
    ]_vars

\* C15 witness: the creation of a device failed for one id, which has its
\* queue row and no record, and another id has a record with its device.
C15_Witness ==
  /\ \E k \in DOMAIN queue : queue[k].error = ErrDevice /\ ~HasToken(queue[k].id)
  /\ \E i \in DOMAIN tokens : tokens[i].device \in DOMAIN devices

\* C16: each failed drain retry of a Queue Entry raises the entry's attempt
\* count by exactly one and stores the latest error (so the count is the
\* number of failed retries), also when two ticks hold the same entry.
C16_AttemptsCountRetries ==
  [][\A d \in DOMAIN drain :
       (drain[d].pc = "queueUpdate" /\ drain'[d] # drain[d])
         => \A i \in DOMAIN queue :
              queue[i].id = drain[d].run.id
                => /\ queue'[i].attempts = queue[i].attempts + 1
                   /\ queue'[i].error = drain[d].run.err
    ]_vars

\* A drain tick fires in this step and its loop calls indexById for id.
TickInvokes(d, id) ==
  /\ Free(drain[d])
  /\ drain'[d].pc = "indexById"
  /\ drain'[d].run = StartIndex(id, drain'[d].run.operator)

\* C17: once an id has its Token Record, no drain tick that fires later calls
\* indexById for the id's queue row, and the row's attempt count and error
\* stay as they are.
C17_ResolvedNotRevisited ==
  [][\A id \in Ids :
       HasToken(id)
         => /\ \A d \in DOMAIN drain : ~TickInvokes(d, id)
            /\ \A i \in DOMAIN queue :
                 queue[i].id = id
                   => /\ queue'[i].attempts = queue[i].attempts
                      /\ queue'[i].error = queue[i].error
    ]_vars

\* C18: a step of the sweep, or of a run of indexById it started, leaves the
\* queue as it is; and when the sweep finds no mint event for an id (its loop
\* does not go on to the next id) it starts no run and queues nothing.
C18_SweepLeavesQueue ==
  [][/\ (sweep' # sweep \/ spawned' # spawned) => queue' = queue
     /\ (/\ sweep.pc = "fetchOriginalMinter"
         /\ sweep' # sweep
         /\ sweep' # SyncLoop(Tail(sweep.diff)))
          => spawned' = spawned /\ queue' = queue
    ]_vars

\* C18 witness: a sweep is over while mint events could not be found: it
\* started a run for one id, and a later id is left with no run, no record
\* and no queue row.
C18_Witness ==
  /\ sweep = Idle
  /\ ~healthy
  /\ \E s \in DOMAIN spawned : \E j \in 1..currentTokenId :
       /\ ~Free(spawned[s])
       /\ spawned[s].id < j
       /\ ~HasToken(j) /\ ~HasEntry(j)
       /\ \A t \in InFlight : t.id # j

\* A drain tick is calling indexById for a queue row of id.
Retried(id) == \E d \in DOMAIN drain : drain[d].pc = "indexById" /\ drain[d].run.id = id

\* C19: with drain ticks firing for ever, every queue row whose id has no
\* Token Record is eventually retried by a drain tick (or the id gets its
\* record otherwise), also with more rows queued than a tick fetches.
C19_DrainFairness ==
  \A id \in Ids :
    []<><<DrainTicks>>_vars
      => ((HasEntry(id) /\ ~HasToken(id)) ~> (Retried(id) \/ HasToken(id)))

\* The pre-check suppresses the sweep in this step: the counter it read
\* equals the number of Token Records it read.
Suppressed ==
  /\ sweep.pc = "queueFetch"
  /\ sweep' # sweep
  /\ sweep.currentID = sweep.dataLength

\* C20: whenever the pre-check suppresses the sweep, no id of
\* [1..currentId] is without a Token Record and without a queue row at that
\* moment (taken with the counter the sweep read and the tables as they are
\* then, the reading under which the least is asked).
C20_PreCheckSound ==
  [][Suppressed => Missing(sweep.currentID, SeqIds(tokens), SeqIds(queue)) = {}]_vars
====
